---- MODULE Spec2Model ----
(***************************************************************************)
(* Model of the configuration patch engine of pcluster:                    *)
(*   cli/pcluster/config/update_policy.py   (UpdatePolicy)                 *)
(*   cli/pcluster/config/config_patch.py    (Change, ConfigPatch)          *)
(*   cli/pcluster/update/update_command.py  (the update command)           *)
(* The configuration objects (PclusterConfig, Section, Param) are modelled *)
(* by the accessor contract the patch engine and the tests rely on.        *)
(***************************************************************************)
EXTENDS Integers, Sequences, FiniteSets, TLC

VARIABLES
    heap,           \* the configuration objects, by reference
    given,          \* the two configurations as the caller built them
    base_config,    \* ConfigPatch.base_config   (a reference, or None)
    target_config,  \* ConfigPatch.target_config (a reference, or None)
    changes,        \* ConfigPatch.changes
    pc,             \* position in ConfigPatch.__init__ / check
    stack,          \* the live stack the last check() ran against
    check_out,      \* what the last check() returned
    args,           \* the arguments of the UpdatePolicy under construction
    out,            \* the policy built, the result of its check, the level read
    cmd             \* the run of the update command

vars == <<heap, given, base_config, target_config, changes, pc, stack, check_out,
          args, out, cmd>>

(***************************************************************************)
(* Bounds of the model.                                                    *)
(***************************************************************************)
MaxEbs == 2      \* most "ebs" sections of one input configuration
MaxVpc == 2      \* most "vpc" sections of one input configuration
MaxChanges == 3  \* most changes of a patch handed to check() on its own
MaxUpdateChanges == 2  \* most changes of the patch the update command builds

\* Python's None, as a parameter value, a label or a reference.
None == "None"

\* Python truthiness of a str-or-None value.
Truthy(v) == v # None /\ v # ""

(***************************************************************************)
(* Labels are plain strings; Python orders them by code point.  LabelOrder *)
(* lists every label of the model in that order ('-' < digits < '_' <      *)
(* lower case letters).                                                    *)
(***************************************************************************)
LabelOrder ==
    << "_cluster", "_ebs", "_ebs1", "_ebs2", "_ebs3", "_vpc", "_vpc1", "_vpc2",
       "_vpc3", "default", "ebs-1", "ebs-1_updated", "ebs-2", "ebs-2_updated",
       "ebs-3", "ebs-3_updated", "ebs-4", "ebs-4_updated", "vpc2", "vpc3", "vpc4" >>

Rank(label) == CHOOSE i \in 1..Len(LabelOrder) : LabelOrder[i] = label

\* sorted(labels): the list of labels in ascending order.
RECURSIVE Insert(_, _)
Insert(l, srt) ==
    IF srt = <<>> THEN <<l>>
    ELSE IF Rank(l) <= Rank(srt[1]) THEN <<l>> \o srt
    ELSE <<srt[1]>> \o Insert(l, Tail(srt))

RECURSIVE sorted(_)
sorted(labels) ==
    IF labels = <<>> THEN <<>> ELSE Insert(labels[1], sorted(Tail(labels)))

\* ",".join(labels)
RECURSIVE join(_)
join(labels) ==
    IF labels = <<>> THEN ""
    ELSE IF Len(labels) = 1 THEN labels[1]
    ELSE labels[1] \o "," \o join(Tail(labels))

\* str(i) for the indices the renaming uses.
IntToStr(i) == <<"1", "2", "3", "4", "5", "6", "7", "8", "9">>[i]

(***************************************************************************)
(* UpdatePolicy.  An optional argument is a set: {} is None, {v} is v.     *)
(* A condition_checker is named by what it queries.                        *)
(***************************************************************************)
NoChecker == None

\* A remediation text is the sequence of its pieces, the two placeholders
\* being pieces of their own; <<>> is "no text" (None or the empty string).
NoAction == <<>>

UpdatePolicy(base_policy, level, fail_reason, action_needed, condition_checker) ==
    LET fresh == [ fail_reason |-> None, action_needed |-> NoAction,
                   condition_checker |-> NoChecker, level |-> 0 ]
        cloned == IF base_policy # {}
                    THEN LET b == CHOOSE b \in base_policy : TRUE
                         IN  [ fail_reason |-> b.fail_reason,
                               action_needed |-> b.action_needed,
                               condition_checker |-> b.condition_checker,
                               level |-> b.level ]
                    ELSE fresh
        lv == IF level # {} /\ level # {0}
                THEN CHOOSE l \in level : TRUE ELSE cloned.level
    IN  [ fail_reason |-> IF Truthy(fail_reason) THEN fail_reason
                          ELSE cloned.fail_reason,
          action_needed |-> IF action_needed # NoAction THEN action_needed
                            ELSE cloned.action_needed,
          condition_checker |-> IF Truthy(condition_checker) THEN condition_checker
                                ELSE cloned.condition_checker,
          level |-> lv ]

SUCCEEDED == "SUCCEEDED"
ACTION_NEEDED == "ACTION NEEDED"
FAILED == "FAILED"

StopAction ==
    << "Stop the cluster with the following command: \npcluster stop -c ",
       "$CONFIG_FILE", " ", "$CLUSTER_NAME" >>
RestoreAction == << "Restore the previous parameter value for the unsupported changes." >>

IGNORED == UpdatePolicy({}, {-10}, None, NoAction, "always_true")
ALLOWED == UpdatePolicy({}, {0}, None, NoAction, "always_true")
COMPUTE_FLEET_RESTART ==
    UpdatePolicy({}, {10}, "Compute fleet must be empty", StopAction, "asg_empty")
MASTER_RESTART ==
    UpdatePolicy({}, {20}, "Master node must be down", StopAction, "master_stopped")
UNKNOWN == UpdatePolicy({}, {100}, "Update currently not supported", RestoreAction, None)
DENIED == UpdatePolicy({}, {1000}, "Update currently unsupported", RestoreAction, None)

\* UpdatePolicy.__eq__
\* Mutation of PolicyEq: every field is compared.
PolicyEqAllFields(p, q) == p = q

\* Mutation of PolicyEq: the level alone is compared.
PolicyEqLevel(p, q) == p.level = q.level

PolicyEq(p, q) == p.fail_reason = q.fail_reason /\ p.level = q.level

(***************************************************************************)
(* The live stack a condition_checker queries: the instances of the        *)
(* compute fleet, the state of the master server, and whether the query    *)
(* can be answered at all.                                                 *)
(***************************************************************************)
Stacks == [ asg_instances : 0..1, master_state : {"running", "stopped"},
            reachable : {TRUE} ]
          \cup { [ asg_instances |-> 0, master_state |-> "stopped", reachable |-> FALSE ] }

\* Mutation of CheckerValue: the compute fleet is asked to be running.
CheckerValueNotEmpty(checker, st) ==
    CASE checker = "always_true"    -> TRUE
      [] checker = "asg_empty"      -> st.asg_instances # 0
      [] checker = "master_stopped" -> st.master_state = "stopped"

\* The value of condition_checker(stack_name).
CheckerValue(checker, st) ==
    CASE checker = "always_true"    -> TRUE
      [] checker = "asg_empty"      -> st.asg_instances = 0
      [] checker = "master_stopped" -> st.master_state = "stopped"

\* Whether condition_checker(stack_name) raises: the two queries of the
\* live stack fail when it cannot be reached.
CheckerRaises(checker, st) ==
    checker \in {"asg_empty", "master_stopped"} /\ ~st.reachable

\* Not a result: the call did not return, an exception left it.
RAISED == "raised"

\* Mutation of PolicyCheck: without a condition_checker the result is
\* ACTION_NEEDED.
PolicyCheckNoFailure(policy, st) ==
    IF Truthy(policy.condition_checker)
      THEN IF CheckerRaises(policy.condition_checker, st) THEN RAISED
           ELSE IF CheckerValue(policy.condition_checker, st) THEN SUCCEEDED
           ELSE ACTION_NEEDED
      ELSE ACTION_NEEDED

\* Mutation of PolicyCheck: a false condition is reported as a failure.
PolicyCheckStrict(policy, st) ==
    IF Truthy(policy.condition_checker) /\ ~CheckerRaises(policy.condition_checker, st)
         /\ CheckerValue(policy.condition_checker, st)
      THEN SUCCEEDED
      ELSE FAILED

\* UpdatePolicy.check
PolicyCheck(policy, st) ==
    IF Truthy(policy.condition_checker)
      THEN IF CheckerRaises(policy.condition_checker, st) THEN RAISED
           ELSE IF CheckerValue(policy.condition_checker, st) THEN SUCCEEDED
           ELSE ACTION_NEEDED
      ELSE FAILED

(***************************************************************************)
(* The configuration model.  A section is a record                         *)
(*   [key, label, params, mock]                                            *)
(* where params maps the parameter keys of the section kind to values and  *)
(* mock says whether the "mock" attribute is set on the section.  A        *)
(* configuration is [sections, config_file]: sections is the sequence of   *)
(* its section objects, those of one key in their insertion order.  A      *)
(* section object is named by its position in the sequence.                *)
(***************************************************************************)
IGNORED_SECTIONS == <<"global", "aliases">>

\* The parameters of each section kind, in the order the section holds them.
ParamKeys(section_key) ==
    CASE section_key = "cluster" -> <<"initial_queue_size", "ebs_settings">>
      [] section_key = "vpc"     -> <<"master_subnet_id", "additional_sg">>
      [] section_key = "ebs"     -> <<"shared_dir">>
      [] OTHER                   -> <<>>

SeqToSet(s) == { s[i] : i \in 1..Len(s) }

\* section.key_param: the parameter that identifies an instance, or None.
key_param(section_key) == IF section_key = "ebs" THEN "shared_dir" ELSE None

\* param.referred_section_key of a settings parameter.
referred_section_key(param_key) == IF param_key = "ebs_settings" THEN "ebs" ELSE None

\* param.key.endswith("_settings")
IsSettings(param_key) == param_key \in {"ebs_settings"}

\* param.get_update_policy(): the policy each parameter declares.
get_update_policy(section_key, param_key) ==
    CASE param_key = "master_subnet_id"   -> UpdatePolicy({DENIED}, {}, None, NoAction, None)
      [] param_key = "additional_sg"      -> UpdatePolicy({ALLOWED}, {}, None, NoAction, None)
      [] param_key = "initial_queue_size" ->
             UpdatePolicy({COMPUTE_FLEET_RESTART}, {}, None, NoAction, None)
      [] param_key = "ebs_settings"       ->
             UpdatePolicy({DENIED}, {}, "Cannot add/remove EBS Sections", NoAction, None)
      [] param_key = "shared_dir"         -> UpdatePolicy({DENIED}, {}, None, NoAction, None)

\* The value a parameter has in a section built from its definition alone.
DefaultValue(section_key, param_key) ==
    IF param_key = "initial_queue_size" THEN "0" ELSE None

NoSection == 0

\* config.get_section_keys(): the keys, in the order of their first section.
RECURSIVE KeysOf(_)
KeysOf(sections) ==
    IF sections = <<>> THEN <<>>
    ELSE LET k == sections[1].key
         IN  <<k>> \o KeysOf(SelectSeq(Tail(sections), LAMBDA s : s.key # k))

get_section_keys(config) == KeysOf(config.sections)

\* config.get_sections(section_key): the section objects of that key.
RECURSIVE IndicesFrom(_, _, _)
IndicesFrom(sections, section_key, i) ==
    IF i > Len(sections) THEN <<>>
    ELSE (IF sections[i].key = section_key THEN <<i>> ELSE <<>>)
         \o IndicesFrom(sections, section_key, i + 1)

get_sections(config, section_key) == IndicesFrom(config.sections, section_key, 1)

\* config.get_section(section_key, section_label): the section object, or
\* NoSection; without a label, the first section of the key.
get_section(config, section_key, section_label) ==
    LET all == get_sections(config, section_key)
        hit == SelectSeq(all, LAMBDA i : config.sections[i].label = section_label)
    IN  IF section_label = None
          THEN (IF all = <<>> THEN NoSection ELSE all[1])
          ELSE (IF hit = <<>> THEN NoSection ELSE hit[1])

\* The sections of every key, in the order the two nested loops
\* "for section_key in get_section_keys(): for section in get_sections(section_key)"
\* visit them.
RECURSIVE VisitKeys(_, _)
VisitKeys(config, keys) ==
    IF keys = <<>> THEN <<>>
    ELSE get_sections(config, keys[1]) \o VisitKeys(config, Tail(keys))

VisitOrder(config) == VisitKeys(config, get_section_keys(config))

\* Mutation of _restore_settings_param: the labels are joined in the order
\* of the sections, not sorted.
_restore_settings_param_unsorted(config, param_key) ==
    LET sections == get_sections(config, referred_section_key(param_key))
        not_mock == SelectSeq(sections, LAMBDA i : ~config.sections[i].mock)
    IN  join([ n \in 1..Len(not_mock) |-> config.sections[not_mock[n]].label ])

\* ConfigPatch._restore_settings_param: the labels of the non-mock sections
\* of the referred key, sorted and joined.
_restore_settings_param(config, param_key) ==
    LET sections == get_sections(config, referred_section_key(param_key))
        not_mock == SelectSeq(sections, LAMBDA i : ~config.sections[i].mock)
        sections_labels_list ==
            [ n \in 1..Len(not_mock) |-> config.sections[not_mock[n]].label ]
    IN  join(sorted(sections_labels_list))

\* The refresh a configuration runs whenever a section is added, removed or
\* relabelled: every settings parameter of the "cluster" sections is rebuilt.
Refresh(config) ==
    [ config EXCEPT !.sections =
        [ i \in 1..Len(config.sections) |->
            LET s == config.sections[i]
            IN  IF s.key = "cluster"
                  THEN [ s EXCEPT !.params =
                           [ p \in DOMAIN s.params |->
                               IF IsSettings(p) THEN _restore_settings_param(config, p)
                               ELSE s.params[p] ] ]
                  ELSE s ] ]

\* config.add_section(section): the section becomes the last of its key.
add_section(config, section) ==
    Refresh([ config EXCEPT !.sections = Append(config.sections, section) ])

\* config.remove_section(section_key, section_label); without a label, the
\* section of that key.
remove_section(config, section_key, section_label) ==
    LET i == get_section(config, section_key, section_label)
    IN  IF i = NoSection THEN config
        ELSE Refresh([ config EXCEPT !.sections =
                         SubSeq(config.sections, 1, i - 1)
                         \o SubSeq(config.sections, i + 1, Len(config.sections)) ])

\* "section.label = label" on the section object at position i.
set_label(config, i, label) ==
    Refresh([ config EXCEPT !.sections[i].label = label ])

\* section.get_param_value(param_key)
get_param_value(section, param_key) ==
    IF param_key \in DOMAIN section.params THEN section.params[param_key] ELSE None

\* section_type(section_definition, pcluster_config, section_label): a
\* section of the kind, every parameter at its default.
NewSection(section_key, section_label) ==
    [ key |-> section_key, label |-> section_label, mock |-> FALSE,
      params |-> [ p \in SeqToSet(ParamKeys(section_key)) |->
                     DefaultValue(section_key, p) ] ]

(***************************************************************************)
(* ConfigPatch.  The two configurations of a patch are threaded through    *)
(* the methods as the record [b, t] (base, target).                        *)
(***************************************************************************)
Change(section_key, section_label, param_key, old_value, new_value, update_policy) ==
    [ section_key |-> section_key, section_label |-> section_label,
      param_key |-> param_key, old_value |-> old_value, new_value |-> new_value,
      update_policy |-> update_policy ]

\* Mutation of deepcopy: the patch keeps the caller's object.
deepcopy_alias(ref) == ref

\* copy.deepcopy(config): the reference of the new object.
deepcopy(ref) == "copy of " \o ref

RECURSIVE RemoveKeys(_, _)
RemoveKeys(config, keys) ==
    IF keys = <<>> THEN config
    ELSE RemoveKeys(remove_section(config, keys[1], None), Tail(keys))

_remove_ignored_sections(config) == RemoveKeys(config, IGNORED_SECTIONS)

\* sorted(config.get_sections(section_key).items()): the section objects of
\* a set, by label.
RECURSIVE SortedByLabel(_, _)
SortedByLabel(config, idx) ==
    IF idx = {} THEN <<>>
    ELSE LET m == CHOOSE i \in idx : \A j \in idx :
                     \/ Rank(config.sections[i].label) < Rank(config.sections[j].label)
                     \/ /\ config.sections[i].label = config.sections[j].label
                        /\ i <= j
         IN  <<m>> \o SortedByLabel(config, idx \ {m})

\* new_lbl.format(section_key, i if i > 0 else "")
new_lbl(section_key, i) == "_" \o section_key \o (IF i > 0 THEN IntToStr(i) ELSE "")

\* The inner loop of _rename_base_sections for one section key.
RECURSIVE RenameSections(_, _, _, _)
RenameSections(config, section_key, order, i) ==
    IF order = <<>> THEN config
    ELSE RenameSections(set_label(config, order[1], new_lbl(section_key, i)),
                        section_key, Tail(order), i + 1)

RECURSIVE RenameKeys(_, _)
RenameKeys(config, keys) ==
    IF keys = <<>> THEN config
    ELSE RenameKeys(
             RenameSections(config, keys[1],
                            SortedByLabel(config, SeqToSet(get_sections(config, keys[1]))),
                            0),
             Tail(keys))

\* Mutation of _rename_base_sections: the base sections keep their labels.
_rename_base_sections_skipped(b) == b

_rename_base_sections(b) == RenameKeys(b, get_section_keys(b))

\* Mutation of MockSection: the "mock" attribute is never set.
MockSectionUnflagged(section) == NewSection(section.key, section.label)

\* Mutation of MockSection: the section is copied, parameters included,
\* instead of built from its definition.
MockSectionCopied(section) == [ section EXCEPT !.mock = Truthy(key_param(section.key)) ]

\* The section _create_default_section builds for `section`.
MockSection(section) ==
    [ NewSection(section.key, section.label) EXCEPT
        !.mock = Truthy(key_param(section.key)) ]

_create_default_section(config, section) == add_section(config, MockSection(section))

\* Mutation of _get_target_section_by_param: the Param object is compared
\* with the value, so no section is ever found.
_get_target_section_by_param_object(t, section_key, param_key, param_value) == NoSection

_get_target_section_by_param(t, section_key, param_key, param_value) ==
    LET hit == SelectSeq(get_sections(t, section_key),
                         LAMBDA i : /\ param_key \in DOMAIN t.sections[i].params
                                    /\ t.sections[i].params[param_key] = param_value)
    IN  IF hit = <<>> THEN NoSection ELSE hit[1]

\* The section of the target _get_target_section finds without building
\* one, or NoSection.
FindTargetSection(t, base_section) ==
    IF Truthy(key_param(base_section.key))
      THEN _get_target_section_by_param(
               t, base_section.key, key_param(base_section.key),
               get_param_value(base_section, key_param(base_section.key)))
      ELSE LET sections == get_sections(t, base_section.key)
           IN  IF Len(sections) = 1 THEN sections[1] ELSE NoSection

\* _get_target_section: the target configuration afterwards, and the
\* label of the section returned.
_get_target_section(t, base_section) ==
    LET section == FindTargetSection(t, base_section)
    IN  IF section = NoSection
          THEN [ t |-> _create_default_section(t, base_section),
                 label |-> MockSection(base_section).label ]
          ELSE [ t |-> t, label |-> t.sections[section].label ]

\* Mutation of _get_base_section: a missing section is not created.
_get_base_section_lookup(b, target_section) == b

\* _get_base_section: the base configuration afterwards.
_get_base_section(b, target_section) ==
    IF get_section(b, target_section.key, target_section.label) = NoSection
      THEN _create_default_section(b, target_section)
      ELSE b

\* Mutation of Relabel: the base section keeps its renamed label.
RelabelSkipped(b, i, label) == b

\* "base_section.label = target_section.label" in _adapt.
Relabel(b, i, label) == set_label(b, i, label)

\* First loop of _adapt, over the base sections in `order`.
RECURSIVE MatchBaseSections(_, _)
MatchBaseSections(bt, order) ==
    IF order = <<>> THEN bt
    ELSE LET found == _get_target_section(bt.t, bt.b.sections[order[1]])
         IN  MatchBaseSections(
                 [ b |-> Relabel(bt.b, order[1], found.label), t |-> found.t ],
                 Tail(order))

\* Second loop of _adapt, over the target sections in `order`.
RECURSIVE CreateMissingBaseSections(_, _)
CreateMissingBaseSections(bt, order) ==
    IF order = <<>> THEN bt
    ELSE CreateMissingBaseSections(
             [ bt EXCEPT !.b = _get_base_section(bt.b, bt.t.sections[order[1]]) ],
             Tail(order))

\* Mutation of NewChange: old_value and new_value exchanged.
NewChangeExchanged(target_section, param_key, base_value) ==
    Change(target_section.key, target_section.label, param_key,
           target_section.params[param_key], base_value,
           get_update_policy(target_section.key, param_key))

\* The Change _compare_section appends for a parameter of the target section.
NewChange(target_section, param_key, base_value) ==
    Change(target_section.key, target_section.label, param_key, base_value,
           target_section.params[param_key],
           get_update_policy(target_section.key, param_key))

\* Mutation of CompareParams: a Change for every parameter of the target
\* section, equal values included.
RECURSIVE CompareParamsAll(_, _, _)
CompareParamsAll(base_section, target_section, keys) ==
    IF keys = <<>> THEN <<>>
    ELSE << NewChange(target_section, keys[1],
                      IF base_section # <<>>
                        THEN get_param_value(base_section[1], keys[1])
                        ELSE None) >>
         \o CompareParamsAll(base_section, target_section, Tail(keys))

\* The changes _compare_section appends for the parameters `keys` of the
\* target section; base_section is <<section>>, or <<>> for None.
RECURSIVE CompareParams(_, _, _)
CompareParams(base_section, target_section, keys) ==
    IF keys = <<>> THEN <<>>
    ELSE LET base_value == IF base_section # <<>>
                             THEN get_param_value(base_section[1], keys[1])
                             ELSE None
             target_value == target_section.params[keys[1]]
         IN  (IF base_value # target_value
                THEN << NewChange(target_section, keys[1], base_value) >>
                ELSE <<>>)
             \o CompareParams(base_section, target_section, Tail(keys))

_compare_section(base_section, target_section) ==
    CompareParams(base_section, target_section, ParamKeys(target_section.key))

\* The section config.get_section(...) returns: <<section>>, or <<>> for None.
SectionAt(config, section_key, section_label) ==
    LET i == get_section(config, section_key, section_label)
    IN  IF i = NoSection THEN <<>> ELSE << config.sections[i] >>

\* Mutation of CompareSections: the "cluster" sections are compared in the
\* loop as well.
RECURSIVE CompareSectionsAll(_, _)
CompareSectionsAll(bt, order) ==
    IF order = <<>> THEN <<>>
    ELSE LET target_section == bt.t.sections[order[1]]
         IN  _compare_section(
                 SectionAt(bt.b, target_section.key, target_section.label),
                 target_section)
             \o CompareSectionsAll(bt, Tail(order))

\* First loop of _compare: every target section in `order` whose key is not
\* "cluster".
RECURSIVE CompareSections(_, _)
CompareSections(bt, order) ==
    IF order = <<>> THEN <<>>
    ELSE LET target_section == bt.t.sections[order[1]]
         IN  (IF target_section.key # "cluster"
                THEN _compare_section(
                         SectionAt(bt.b, target_section.key, target_section.label),
                         target_section)
                ELSE <<>>)
             \o CompareSections(bt, Tail(order))

\* Mutation of _remove_mock_sections: no section is removed.
_remove_mock_sections_skipped(config) == config

\* _remove_mock_sections: the sections are removed one at a time, each
\* removal refreshing the configuration.
RECURSIVE _remove_mock_sections(_)
_remove_mock_sections(config) ==
    LET mocks == SelectSeq(VisitOrder(config), LAMBDA i : config.sections[i].mock)
    IN  IF mocks = <<>> THEN config
        ELSE LET section == config.sections[mocks[1]]
             IN  _remove_mock_sections(remove_section(config, section.key, section.label))

\* Last step of _compare: the "cluster" sections.
CompareCluster(bt) ==
    _compare_section(SectionAt(bt.b, "cluster", None), SectionAt(bt.t, "cluster", None)[1])

\* Mutation of update_policy_level: the level of the last change.
update_policy_level_last(chs) ==
    IF Len(chs) # 0 THEN chs[Len(chs)].update_policy.level ELSE ALLOWED.level

\* ConfigPatch.update_policy_level
RECURSIVE MaxLevel(_)
MaxLevel(chs) ==
    IF Len(chs) = 1 THEN chs[1].update_policy.level
    ELSE LET rest == MaxLevel(Tail(chs))
         IN  IF chs[1].update_policy.level >= rest THEN chs[1].update_policy.level
             ELSE rest

update_policy_level(chs) == IF Len(chs) # 0 THEN MaxLevel(chs) ELSE ALLOWED.level

\* ConfigPatch._adapt, whole.
_adapt(bt) ==
    LET kept    == [ b |-> _remove_ignored_sections(bt.b),
                     t |-> _remove_ignored_sections(bt.t) ]
        renamed == [ kept EXCEPT !.b = _rename_base_sections(kept.b) ]
        matched == MatchBaseSections(renamed, VisitOrder(renamed.b))
    IN  CreateMissingBaseSections(matched, VisitOrder(matched.t))

\* ConfigPatch._compare, whole: the changes of an adapted pair.
_compare(bt) ==
    CompareSections(bt, VisitOrder(bt.t))
    \o CompareCluster([ b |-> _remove_mock_sections(bt.b),
                        t |-> _remove_mock_sections(bt.t) ])

\* ConfigPatch(base_config, target_config).changes
ConfigPatchChanges(base, target) == _compare(_adapt([ b |-> base, t |-> target ]))

(***************************************************************************)
(* ConfigPatch.check(stack_name).                                          *)
(***************************************************************************)
HeaderRow == <<"section", "parameter", "old value", "new value", "check", "reason">>

\* action_needed.replace("$CONFIG_FILE", ...).replace("$CLUSTER_NAME", ...),
\* the pieces put together again.
RECURSIVE Substitute(_, _, _)
Substitute(text, config_file, cluster_name) ==
    IF text = <<>> THEN ""
    ELSE (CASE text[1] = "$CONFIG_FILE"  -> config_file
            [] text[1] = "$CLUSTER_NAME" -> cluster_name
            [] OTHER                     -> text[1])
         \o Substitute(Tail(text), config_file, cluster_name)

\* The first column of a row.
SectionColumn(change) ==
    change.section_key
    \o (IF Truthy(change.section_label) THEN " " ELSE "")
    \o (IF Truthy(change.section_label) THEN change.section_label ELSE "")

\* Mutation of Skipped: no change is left out of the report.
SkippedNever(policy) == FALSE

\* "change.update_policy != UpdatePolicy.IGNORED", negated.
Skipped(policy) == PolicyEq(policy, IGNORED)

\* Mutation of Verdict: the verdict follows the last result.
VerdictOfLast(patch_allowed, check_result) == check_result = SUCCEEDED

\* patch_allowed after a change with that result.
Verdict(patch_allowed, check_result) == patch_allowed /\ check_result = SUCCEEDED

\* The last column of a row.
Reason(policy, check_result) ==
    IF check_result # SUCCEEDED THEN policy.fail_reason ELSE "-"

\* Mutation of Remediation: only the first text is kept.
RemediationFirst(actions_needed, policy, check_result, bt) ==
    IF check_result # SUCCEEDED /\ policy.action_needed # NoAction /\ actions_needed = {}
      THEN { Substitute(policy.action_needed, bt.t.config_file, bt.b.config_file) }
      ELSE actions_needed

\* actions_needed after a change with that result.
Remediation(actions_needed, policy, check_result, bt) ==
    IF check_result # SUCCEEDED /\ policy.action_needed # NoAction
      THEN actions_needed \cup
           { Substitute(policy.action_needed, bt.t.config_file, bt.b.config_file) }
      ELSE actions_needed

\* The row appended for a change.
Row(change, check_result, reason) ==
    << SectionColumn(change), change.param_key, change.old_value, change.new_value,
       check_result, reason >>

\* The loop of check over the changes `chs`, from the results `acc` so far;
\* acc.evaluated counts the calls of a condition_checker.  An exception of
\* a condition_checker leaves the loop and check.
RECURSIVE CheckLoop(_, _, _, _)
CheckLoop(chs, st, bt, acc) ==
    IF chs = <<>> \/ acc.raised THEN acc
    ELSE LET change == chs[1]
             policy == change.update_policy
             check_result == PolicyCheck(policy, st)
         IN  IF Skipped(policy) THEN CheckLoop(Tail(chs), st, bt, acc)
             ELSE IF check_result = RAISED
               THEN [ acc EXCEPT !.raised = TRUE, !.evaluated = acc.evaluated + 1 ]
             ELSE CheckLoop(Tail(chs), st, bt,
                    [ raised |-> FALSE,
                      evaluated |-> acc.evaluated
                                    + (IF Truthy(policy.condition_checker) THEN 1 ELSE 0),
                      patch_allowed |-> Verdict(acc.patch_allowed, check_result),
                      rows |-> Append(acc.rows,
                                      Row(change, check_result, Reason(policy, check_result))),
                      actions_needed |->
                          Remediation(acc.actions_needed, policy, check_result, bt) ])

\* Mutation of check: the verdict starts from "not allowed".
check_pessimistic(chs, st, bt) ==
    CheckLoop(chs, st, bt,
              [ raised |-> FALSE, evaluated |-> 0, patch_allowed |-> FALSE,
                rows |-> <<HeaderRow>>, actions_needed |-> {} ])

check(chs, st, bt) ==
    CheckLoop(chs, st, bt,
              [ raised |-> FALSE, evaluated |-> 0, patch_allowed |-> TRUE,
                rows |-> <<HeaderRow>>, actions_needed |-> {} ])

(***************************************************************************)
(* The configurations a patch is built from.                               *)
(***************************************************************************)
SubnetIds == {"subnet-12345678", "subnet-1234567a"}
SecurityGroups == {"sg-12345678", "sg-1234567a"}
QueueSizes == {"0", "1"}
VpcLabels == <<"default", "vpc2", "vpc3", "vpc4">>
EbsLabels == <<"ebs-1", "ebs-2", "ebs-3", "ebs-4">>
EbsLabelsUpdated == <<"ebs-2_updated", "ebs-1_updated", "ebs-3_updated", "ebs-4_updated">>
EbsDirs == <<"vol1", "vol2", "vol3", "vol4">>

Section(section_key, section_label, params) ==
    [ key |-> section_key, label |-> section_label, mock |-> FALSE, params |-> params ]

NoParams == [ p \in {} |-> None ]

\* The section of the configuration file of the tests.
StandardVpc ==
    << Section("vpc", VpcLabels[1],
               [ master_subnet_id |-> "subnet-12345678", additional_sg |-> "sg-12345678" ]) >>

\* The lists of "vpc" sections a configuration is loaded with: none, or
\* one, with every value of its parameters.
VpcLists ==
    { <<>> }
    \cup { << Section("vpc", VpcLabels[1], [ master_subnet_id |-> m, additional_sg |-> g ]) >>
           : m \in SubnetIds, g \in SecurityGroups }

\* The lists of two to MaxVpc "vpc" sections: a kind without key_param
\* held more than once.
VpcListsAmbiguous ==
    { [ i \in 1..n |-> [ StandardVpc[1] EXCEPT !.label = VpcLabels[i] ] ] : n \in 2..MaxVpc }

\* The lists of at most MaxEbs "ebs" sections labelled by `labels`: the
\* i-th label is absent, or its section is mounted on its own directory or
\* on "new_value".
EbsListsAny(labels) ==
    { SelectSeq([ i \in 1..MaxEbs |-> Section("ebs", labels[i], [ shared_dir |-> d[i] ]) ],
                LAMBDA section : section.params.shared_dir # None)
      : d \in { f \in [ 1..MaxEbs -> SeqToSet(EbsDirs) \cup {"new_value", None} ] :
                  \A i \in 1..MaxEbs : f[i] \in {EbsDirs[i], "new_value", None} } }

\* Those in which no two sections are mounted on the same directory: the
\* key_param identifies a section within its configuration.
EbsLists(labels) ==
    { l \in EbsListsAny(labels) :
        \A i, j \in 1..Len(l) : l[i].params.shared_dir = l[j].params.shared_dir => i = j }

\* The two "ebs" sections of the configuration file of the tests.
StandardEbs(labels) ==
    << Section("ebs", labels[1], [ shared_dir |-> EbsDirs[1] ]),
       Section("ebs", labels[2], [ shared_dir |-> EbsDirs[2] ]) >>

IgnoredSections ==
    << Section("global", "default", NoParams), Section("aliases", "default", NoParams) >>

Config(config_file, ignored, queue_size, vpcs, ebss) ==
    Refresh([ config_file |-> config_file,
              sections |->
                  ignored
                  \o << Section("cluster", "default",
                                [ initial_queue_size |-> queue_size,
                                  ebs_settings |-> None ]) >>
                  \o vpcs \o ebss ])

NoConfig == [ config_file |-> None, sections |-> <<>> ]

\* The configurations read from a file: the "vpc" sections vary, or the
\* "ebs" sections do.
FileConfigs(config_file, ignored, labels, vpc_lists, ebs_lists) ==
    { Config(config_file, ignored, q, v, StandardEbs(labels)) :
        q \in QueueSizes, v \in vpc_lists }
    \cup { Config(config_file, ignored, q, StandardVpc, e) :
             q \in QueueSizes, e \in ebs_lists }

\* The base configurations: those of a file, and those whose "ebs"
\* sections carry other labels, in another order.
BaseConfigs ==
    FileConfigs("pcluster.config.ini", SubSeq(IgnoredSections, 1, 1), EbsLabels,
                VpcLists, EbsLists(EbsLabels))
    \cup FileConfigs("pcluster.config.ini", SubSeq(IgnoredSections, 1, 1),
                     EbsLabelsUpdated, VpcLists, EbsLists(EbsLabelsUpdated))

TargetConfigs ==
    FileConfigs("pcluster.config.dst.ini", IgnoredSections, EbsLabels,
                VpcLists, EbsLists(EbsLabels))

\* Every configuration the accessors can build: also those that hold a
\* kind without key_param more than once, or two sections of one key_param
\* value.
AnyBaseConfigs ==
    FileConfigs("pcluster.config.ini", SubSeq(IgnoredSections, 1, 1), EbsLabels,
                VpcLists \cup VpcListsAmbiguous, EbsListsAny(EbsLabels))
    \cup FileConfigs("pcluster.config.ini", SubSeq(IgnoredSections, 1, 1),
                     EbsLabelsUpdated, VpcLists \cup VpcListsAmbiguous,
                     EbsListsAny(EbsLabelsUpdated))

AnyTargetConfigs ==
    FileConfigs("pcluster.config.dst.ini", IgnoredSections, EbsLabels,
                VpcLists \cup VpcListsAmbiguous, EbsListsAny(EbsLabels))

NoCheck == [ raised |-> FALSE, evaluated |-> 0, patch_allowed |-> TRUE, rows |-> <<>>,
             actions_needed |-> {} ]
NoStack == [ asg_instances |-> 0, master_state |-> None, reachable |-> FALSE ]
NoArgs == [ base_policy |-> {}, level |-> {}, fail_reason |-> None,
            action_needed |-> NoAction, condition_checker |-> None ]
NoOut == [ policy |-> ALLOWED, check |-> None, level |-> 0, other |-> ALLOWED, eq |-> FALSE ]

\* The update command before it runs: nothing loaded, built, asked or called.
NoCmd ==
    [ step |-> None, force |-> FALSE, raises |-> None, patch_built |-> FALSE,
      checked |-> FALSE, can_proceed |-> TRUE, prompted |-> FALSE, answer |-> None,
      update_stack |-> FALSE, exit_status |-> None ]

(***************************************************************************)
(* The state machine: ConfigPatch(src_conf, dst_conf), then patch.check.   *)
(***************************************************************************)
Heap(b, t) ==
    [ r \in {"src_conf", "dst_conf", deepcopy("src_conf"), deepcopy("dst_conf")} |->
        CASE r = "src_conf" -> b
          [] r = "dst_conf" -> t
          [] OTHER -> NoConfig ]

InitFrom(bases, targets) ==
    /\ \E b \in bases, t \in targets :
          /\ given = [ b |-> b, t |-> t ]
          /\ heap = Heap(b, t)
    /\ base_config = None
    /\ target_config = None
    /\ changes = <<>>
    /\ pc = "start"
    /\ stack = NoStack
    /\ check_out = NoCheck
    /\ args = NoArgs
    /\ out = NoOut
    /\ cmd = NoCmd

Init == InitFrom(BaseConfigs, TargetConfigs)

InitAny == InitFrom(AnyBaseConfigs, AnyTargetConfigs)

\* The two configurations of the patch.
Patch == [ b |-> heap[base_config], t |-> heap[target_config] ]

\* The heap with the two configurations of the patch replaced.
Store(bt) == [ heap EXCEPT ![base_config] = bt.b, ![target_config] = bt.t ]

\* ConfigPatch.__init__, up to the call of _adapt.
Construct ==
    /\ pc = "start"
    /\ base_config' = deepcopy("src_conf")
    /\ target_config' = deepcopy("dst_conf")
    /\ heap' = [ heap EXCEPT ![deepcopy("src_conf")] = heap["src_conf"],
                             ![deepcopy("dst_conf")] = heap["dst_conf"] ]
    /\ changes' = <<>>
    /\ pc' = "remove_ignored"
    /\ UNCHANGED <<cmd, given, stack, check_out, args, out>>

\* _adapt: the ignored sections are removed from both configurations.
RemoveIgnoredSections ==
    /\ pc = "remove_ignored"
    /\ heap' = Store([ b |-> _remove_ignored_sections(Patch.b),
                       t |-> _remove_ignored_sections(Patch.t) ])
    /\ pc' = "rename"
    /\ UNCHANGED <<cmd, given, base_config, target_config, changes, stack, check_out,
                   args, out>>

\* _adapt: the base sections are renamed.
RenameBaseSections ==
    /\ pc = "rename"
    /\ heap' = Store([ Patch EXCEPT !.b = _rename_base_sections(Patch.b) ])
    /\ pc' = "match_base"
    /\ UNCHANGED <<cmd, given, base_config, target_config, changes, stack, check_out,
                   args, out>>

\* _adapt: every base section is matched and takes its partner's label.
AdaptBase ==
    /\ pc = "match_base"
    /\ heap' = Store(MatchBaseSections(Patch, VisitOrder(Patch.b)))
    /\ pc' = "match_target"
    /\ UNCHANGED <<cmd, given, base_config, target_config, changes, stack, check_out,
                   args, out>>

\* _adapt: the sections missing from the base configuration are created.
AdaptTarget ==
    /\ pc = "match_target"
    /\ heap' = Store(CreateMissingBaseSections(Patch, VisitOrder(Patch.t)))
    /\ pc' = "compare"
    /\ UNCHANGED <<cmd, given, base_config, target_config, changes, stack, check_out,
                   args, out>>

\* _compare: every section but "cluster".
Compare ==
    /\ pc = "compare"
    /\ changes' = changes \o CompareSections(Patch, VisitOrder(Patch.t))
    /\ pc' = "remove_mock"
    /\ UNCHANGED <<cmd, heap, given, base_config, target_config, stack, check_out,
                   args, out>>

\* _compare: the mock sections are removed from both configurations.
RemoveMockSections ==
    /\ pc = "remove_mock"
    /\ heap' = Store([ b |-> _remove_mock_sections(Patch.b),
                       t |-> _remove_mock_sections(Patch.t) ])
    /\ pc' = "compare_cluster"
    /\ UNCHANGED <<cmd, given, base_config, target_config, changes, stack, check_out,
                   args, out>>

\* _compare: the "cluster" section; the patch is built.
CompareClusterSection ==
    /\ pc = "compare_cluster"
    /\ changes' = changes \o CompareCluster(Patch)
    /\ pc' = "built"
    /\ UNCHANGED <<cmd, heap, given, base_config, target_config, stack, check_out,
                   args, out>>

\* patch.check(stack_name) against some live stack.
Check ==
    /\ pc = "built"
    /\ \E st \in Stacks :
          /\ stack' = st
          /\ check_out' = check(changes, st, Patch)
          /\ pc' = IF check(changes, st, Patch).raised THEN "check_raised" ELSE "checked"
    /\ UNCHANGED <<cmd, heap, given, base_config, target_config, changes, args, out>>

\* patch.update_policy_level is read.
ReadLevel ==
    /\ pc = "built"
    /\ out' = [ out EXCEPT !.level = update_policy_level(changes) ]
    /\ pc' = "level_read"
    /\ UNCHANGED <<cmd, heap, given, base_config, target_config, changes, stack, check_out,
                   args>>

\* UpdatePolicy(base_policy, level, fail_reason, action_needed,
\* condition_checker) with the arguments drawn.
NewPolicy ==
    /\ pc = "policy"
    /\ out' = [ out EXCEPT !.policy =
                  UpdatePolicy(args.base_policy, args.level, args.fail_reason,
                               args.action_needed, args.condition_checker) ]
    /\ pc' = "policy_built"
    /\ UNCHANGED <<cmd, heap, given, base_config, target_config, changes, stack, check_out,
                   args>>

\* policy.check(stack_name) against some live stack.
CheckPolicy ==
    /\ pc = "policy_built"
    /\ \E st \in Stacks :
          /\ stack' = st
          /\ out' = [ out EXCEPT !.check = PolicyCheck(out.policy, st) ]
    /\ pc' = "policy_checked"
    /\ UNCHANGED <<cmd, heap, given, base_config, target_config, changes, check_out, args>>

Next ==
    \/ Construct
    \/ RemoveIgnoredSections
    \/ RenameBaseSections
    \/ AdaptBase
    \/ AdaptTarget
    \/ Compare
    \/ RemoveMockSections
    \/ CompareClusterSection
    \/ Check

\* The patches of the configurations a file is loaded into.
Spec == Init /\ [][Next]_vars

\* The patches of every pair of configurations.
SpecAny == InitAny /\ [][Next]_vars

(***************************************************************************)
(* What a patch is compared against: the configurations as the caller      *)
(* gave them.                                                              *)
(***************************************************************************)
\* The sections of a configuration outside the always-ignored kinds.
Kept(config) ==
    SeqToSet(SelectSeq(config.sections,
                       LAMBDA s : s.key \notin SeqToSet(IGNORED_SECTIONS)))

\* Their labels, kind by kind.
LabelPairs(config) == { <<s.key, s.label>> : s \in Kept(config) }

\* Their contents: kind, label and every parameter value.
Content(config) ==
    { [ key |-> s.key, label |-> s.label, params |-> s.params ] : s \in Kept(config) }

\* Their contents without the labels and without the *_settings
\* parameters, which only list labels.
Shape(config) ==
    { [ key |-> s.key,
        params |-> [ p \in { q \in DOMAIN s.params : ~IsSettings(q) } |->
                       s.params[p] ] ] : s \in Kept(config) }

\* The value of a parameter of the section of that kind and label.
ValueIn(config, section_key, section_label, param_key) ==
    LET s == CHOOSE x \in Kept(config) : x.key = section_key /\ x.label = section_label
    IN  s.params[param_key]

\* The parameters whose value differs between two configurations of the
\* same sections and labels.
Differing(b, t) ==
    UNION { { <<s.key, s.label, p>> :
                p \in { q \in DOMAIN s.params :
                          ValueIn(b, s.key, s.label, q) # s.params[q] } }
            : s \in Kept(t) }

\* One Change per differing parameter, carrying the parameter's own policy.
ExpectedChanges(b, t) ==
    { Change(d[1], d[2], d[3], ValueIn(b, d[1], d[2], d[3]), ValueIn(t, d[1], d[2], d[3]),
             get_update_policy(d[1], d[3])) : d \in Differing(b, t) }

\* A set of changes with old_value and new_value exchanged.
Swapped(chs) ==
    { [ c EXCEPT !.old_value = c.new_value, !.new_value = c.old_value ] : c \in chs }

\* The step-wise construction computes what the constructor computes.
BuiltAsConstructed ==
    pc \in {"built", "checked", "check_raised"}
        => changes = ConfigPatchChanges(given.b, given.t)

(***************************************************************************)
(* Claims on the constructed patch.                                        *)
(***************************************************************************)
\* C1: a patch built from two configurations with the same sections, labels
\* and parameter values (outside the ignored kinds) has an empty change
\* list, and its update_policy_level is ALLOWED's level, 0.
C1_EqualConfigsNoChanges ==
    (pc = "built" /\ Content(given.b) = Content(given.t))
        => /\ changes = <<>>
           /\ update_policy_level(changes) = ALLOWED.level
           /\ ALLOWED.level = 0

C1_Witness ==
    /\ pc = "built"
    /\ Content(given.b) = Content(given.t)
    /\ \E x, y \in LabelPairs(given.b) : x[1] = "ebs" /\ y[1] = "ebs" /\ x # y
    /\ \E x \in LabelPairs(given.b) : x[1] = "vpc"

\* C2 as stated: for two configurations with the same sections and labels
\* that differ in the values of a set P of parameters, the change list has
\* exactly |P| elements, one per parameter of P with (section_key,
\* section_label, param_key, old_value, new_value) and the parameter's own
\* policy; with base and target exchanged the set is the same with
\* old_value and new_value exchanged.
C2_Original ==
    (pc = "built" /\ LabelPairs(given.b) = LabelPairs(given.t))
        => /\ Len(changes) = Cardinality(Differing(given.b, given.t))
           /\ SeqToSet(changes) = ExpectedChanges(given.b, given.t)
           /\ SeqToSet(ConfigPatchChanges(given.t, given.b)) = Swapped(SeqToSet(changes))

\* C2, amended: the same, when no parameter of P is the key_param of its
\* section.
C2_ChangePerDifferingParam ==
    ( /\ pc = "built"
      /\ LabelPairs(given.b) = LabelPairs(given.t)
      /\ \A d \in Differing(given.b, given.t) : d[3] # key_param(d[1]) )
        => /\ Len(changes) = Cardinality(Differing(given.b, given.t))
           /\ SeqToSet(changes) = ExpectedChanges(given.b, given.t)
           /\ SeqToSet(ConfigPatchChanges(given.t, given.b)) = Swapped(SeqToSet(changes))

C2_Witness ==
    /\ pc = "built"
    /\ LabelPairs(given.b) = LabelPairs(given.t)
    /\ \A d \in Differing(given.b, given.t) : d[3] # key_param(d[1])
    /\ Cardinality(Differing(given.b, given.t)) = 3
    /\ Len(changes) = 3

\* C3: when base and target differ only in section labels (the sections
\* correspond one to one, with the same kind and parameter values), the
\* change list is empty and, after construction, every base section carries
\* the label of its target partner, none keeps a label of its own.
C3_LabelsOnlyNoChanges ==
    ( /\ pc = "built"
      /\ Shape(given.b) = Shape(given.t)
      /\ Cardinality(Kept(given.b)) = Cardinality(Kept(given.t)) )
        => /\ changes = <<>>
           /\ \A s \in Kept(Patch.b) :
                 \E u \in Kept(given.t) :
                    /\ u.key = s.key
                    /\ u.label = s.label
                    /\ \A p \in DOMAIN s.params :
                          ~IsSettings(p) => s.params[p] = u.params[p]
           /\ Cardinality(Kept(Patch.b)) = Cardinality(Kept(given.t))

C3_Witness ==
    /\ pc = "built"
    /\ Shape(given.b) = Shape(given.t)
    /\ Cardinality(Kept(given.b)) = Cardinality(Kept(given.t))
    /\ LabelPairs(given.b) \cap LabelPairs(given.t) = {<<"cluster", "default">>, <<"vpc", "default">>}
    /\ Cardinality(LabelPairs(given.b)) = 4

(***************************************************************************)
(* Claims on sections added and removed.                                   *)
(***************************************************************************)
\* The sections of one kind, and the sections outside "cluster".
OfKey(config, section_key) == { s \in Content(config) : s.key = section_key }
NonCluster(config) == { s \in Content(config) : s.key # "cluster" }

\* `part` is `whole` without one of its two keyed ("ebs") sections.
OneKeyedSectionLess(whole, part) ==
    /\ Cardinality(OfKey(whole, "ebs")) = 2
    /\ Cardinality(OfKey(part, "ebs")) = 1
    /\ OfKey(part, "ebs") \subseteq OfKey(whole, "ebs")
    /\ NonCluster(part) \subseteq NonCluster(whole)
    /\ NonCluster(whole) \ NonCluster(part) \subseteq OfKey(whole, "ebs")
    /\ { s \in Shape(whole) : s.key = "cluster" } = { s \in Shape(part) : s.key = "cluster" }
    /\ { x \in LabelPairs(whole) : x[1] = "cluster" }
         = { x \in LabelPairs(part) : x[1] = "cluster" }

\* A change without its policy.
Values(c) == <<c.section_key, c.section_label, c.param_key, c.old_value, c.new_value>>

\* The label of the only "cluster" section.
ClusterLabel(config) == (CHOOSE s \in OfKey(config, "cluster") : TRUE).label

\* C4: from identical configurations with two keyed sections, removing one
\* keyed section from the target gives exactly two changes: the settings
\* parameter of "cluster" from (synthetic label of the unmatched base
\* section, surviving label) to the surviving label alone, and the key
\* parameter of the unmatched section from its base value to None; the
\* update_policy_level is DENIED's.
C4_SectionRemovedFromTarget ==
    (pc = "built" /\ OneKeyedSectionLess(given.b, given.t))
        => LET gone == CHOOSE s \in OfKey(given.b, "ebs") \ OfKey(given.t, "ebs") : TRUE
               kept == CHOOSE s \in OfKey(given.t, "ebs") : TRUE
           IN  /\ Len(changes) = 2
               /\ \E i \in 0..MaxEbs :
                     { Values(changes[n]) : n \in 1..Len(changes) } =
                         { << "cluster", ClusterLabel(given.t), "ebs_settings",
                              join(sorted(<<new_lbl("ebs", i), kept.label>>)), kept.label >>,
                           << "ebs", new_lbl("ebs", i), "shared_dir",
                              gone.params.shared_dir, None >> }
               /\ update_policy_level(changes) = DENIED.level

C4_Witness ==
    /\ pc = "built"
    /\ OneKeyedSectionLess(given.b, given.t)
    /\ Len(changes) = 2
    /\ \E n \in 1..2 : changes[n].section_label = new_lbl("ebs", 1)

\* C5: from identical configurations with two keyed sections, removing one
\* keyed section from the base gives exactly two changes: the settings
\* parameter of "cluster" from the common label to both target labels, and
\* the key parameter of the added section, under its target label, from
\* None to its value; the update_policy_level is DENIED's.
C5_SectionAddedToTarget ==
    (pc = "built" /\ OneKeyedSectionLess(given.t, given.b))
        => LET added  == CHOOSE s \in OfKey(given.t, "ebs") \ OfKey(given.b, "ebs") : TRUE
               common == CHOOSE s \in OfKey(given.b, "ebs") : TRUE
           IN  /\ Len(changes) = 2
               /\ { Values(changes[n]) : n \in 1..Len(changes) } =
                     { << "cluster", ClusterLabel(given.t), "ebs_settings", common.label,
                          join(sorted(<<added.label, common.label>>)) >>,
                       << "ebs", added.label, "shared_dir", None,
                          added.params.shared_dir >> }
               /\ update_policy_level(changes) = DENIED.level

C5_Witness ==
    /\ pc = "built"
    /\ OneKeyedSectionLess(given.t, given.b)
    /\ Len(changes) = 2
    /\ \E n \in 1..2 : changes[n].section_label = "ebs-1" /\ changes[n].old_value = None

(***************************************************************************)
(* Claims on the adaptation and on the caller's objects.                   *)
(***************************************************************************)
\* C6: after the adaptation, for every section key outside IGNORED_SECTIONS
\* the (key, label) pairs of the patch's base copy are those of its target
\* copy, whatever the two configurations hold.
C6_AdaptedLabelsAgree ==
    pc \in {"compare", "remove_mock"} => LabelPairs(Patch.b) = LabelPairs(Patch.t)

\* A kind without key_param held more than once.
Ambiguous(config) ==
    \E s \in Kept(config) :
        /\ ~Truthy(key_param(s.key))
        /\ Cardinality({ u \in Kept(config) : u.key = s.key }) > 1

C6_Witness ==
    /\ pc = "compare"
    /\ Ambiguous(given.b)
    /\ Ambiguous(given.t)
    /\ LabelPairs(Patch.b) # LabelPairs(given.b)
    /\ LabelPairs(Patch.t) # LabelPairs(given.t)

\* C7: when either configuration holds more than one section of a kind
\* without key_param, the construction fails: no patch is built and no
\* Change is produced.
C7_AmbiguityFails ==
    (Ambiguous(given.b) \/ Ambiguous(given.t))
        => /\ pc \notin {"built", "checked", "check_raised"}
           /\ changes = <<>>

\* C8: constructing a patch and calling check() leaves the two
\* configurations the caller supplied as they were: sections, labels,
\* parameter values and settings values.
C8_CallerConfigsUnchanged ==
    /\ heap["src_conf"] = given.b
    /\ heap["dst_conf"] = given.t

C8_Witness ==
    /\ pc = "checked"
    /\ changes # <<>>
    /\ LabelPairs(Patch.b) # LabelPairs(given.b)
    /\ Patch.t # given.t
    /\ heap["src_conf"] = given.b
    /\ heap["dst_conf"] = given.t

(***************************************************************************)
(* Patches with any list of changes: what update_policy_level and check    *)
(* compute does not depend on how the list was built.                      *)
(***************************************************************************)
BasePolicies == {IGNORED, ALLOWED, COMPUTE_FLEET_RESTART, MASTER_RESTART, UNKNOWN, DENIED}

\* The parameter a change of each policy is made on: the parameters of the
\* tests and, for the policies no parameter of the tests declares, a
\* parameter named after the policy.
ParamOfLevel(level) ==
    CASE level = IGNORED.level               -> "ignored_param"
      [] level = ALLOWED.level               -> "additional_sg"
      [] level = COMPUTE_FLEET_RESTART.level -> "initial_queue_size"
      [] level = MASTER_RESTART.level        -> "master_restart_param"
      [] level = UNKNOWN.level               -> "unknown_param"
      [] level = DENIED.level                -> "master_subnet_id"

\* The policy the tests expect of ebs_settings: DENIED with its own
\* fail_reason.
EbsSettingsPolicy == get_update_policy("cluster", "ebs_settings")

ChangePolicies == BasePolicies \cup {EbsSettingsPolicy}

ChangeOf(policy) ==
    IF policy = EbsSettingsPolicy
      THEN Change("cluster", "default", "ebs_settings", "ebs-1,ebs-2", "ebs-2", policy)
    ELSE
    Change(IF policy.level \in {ALLOWED.level, DENIED.level} THEN "vpc" ELSE "cluster",
           "default", ParamOfLevel(policy.level), "old_value", "new_value", policy)

ChangeLists ==
    UNION { [ 1..n -> { ChangeOf(p) : p \in ChangePolicies } ] : n \in 0..MaxChanges }

FileConfig ==
    Config("pcluster.config.ini", <<>>, "0", StandardVpc, StandardEbs(EbsLabels))

TargetFileConfig ==
    Config("pcluster.config.dst.ini", <<>>, "0", StandardVpc, StandardEbs(EbsLabels))

InitCheck ==
    /\ given = [ b |-> FileConfig, t |-> TargetFileConfig ]
    /\ heap = [ r \in DOMAIN Heap(FileConfig, TargetFileConfig) |->
                   IF r \in {"src_conf", deepcopy("src_conf")} THEN FileConfig
                   ELSE TargetFileConfig ]
    /\ base_config = deepcopy("src_conf")
    /\ target_config = deepcopy("dst_conf")
    /\ changes \in ChangeLists
    /\ pc = "built"
    /\ stack = NoStack
    /\ check_out = NoCheck
    /\ args = NoArgs
    /\ out = NoOut
    /\ cmd = NoCmd

NextCheck == ReadLevel \/ Check

\* A patch holding any list of changes, read and checked.
SpecCheck == InitCheck /\ [][NextCheck]_vars

\* The levels of a list of changes.
Levels(chs) == [ n \in 1..Len(chs) |-> chs[n].update_policy.level ]

\* C9: update_policy_level is the maximum level over the changes of the
\* patch, ALLOWED's level (0) when there is none, and the same for every
\* permutation of the changes.
C9_LevelIsMaximum ==
    pc = "level_read"
        => /\ changes = <<>> => out.level = ALLOWED.level /\ ALLOWED.level = 0
           /\ changes # <<>> =>
                 /\ \E n \in 1..Len(changes) : out.level = Levels(changes)[n]
                 /\ \A n \in 1..Len(changes) : out.level >= Levels(changes)[n]
           /\ \A perm \in Permutations(1..Len(changes)) :
                 update_policy_level([ n \in 1..Len(changes) |-> changes[perm[n]] ])
                     = out.level

C9_Witness ==
    /\ pc = "level_read"
    /\ Levels(changes) = <<10, 1000, 20>>
    /\ out.level = 1000

(***************************************************************************)
(* A policy built from any arguments and checked against any stack.        *)
(***************************************************************************)
PolicyArgs ==
    [ base_policy : {{}} \cup { {p} : p \in BasePolicies },
      level : {{}, {0}, {-5}, {50}},
      fail_reason : {None, "", "Cannot add/remove EBS Sections"},
      action_needed : {NoAction, <<"Use another subnet.">>},
      condition_checker : {None, "always_true", "asg_empty", "master_stopped"} ]

InitPolicy ==
    /\ given = [ b |-> NoConfig, t |-> NoConfig ]
    /\ heap = Heap(NoConfig, NoConfig)
    /\ base_config = None
    /\ target_config = None
    /\ changes = <<>>
    /\ pc = "policy"
    /\ stack = NoStack
    /\ check_out = NoCheck
    /\ args \in PolicyArgs
    /\ out = NoOut
    /\ cmd = NoCmd

\* The policies a policy is compared with: the base policies and policies
\* derived from DENIED.
DerivedFromDenied ==
    { UpdatePolicy({DENIED}, {}, None, NoAction, None),
      UpdatePolicy({DENIED}, {}, None, <<"Use another subnet.">>, None),
      UpdatePolicy({DENIED}, {}, None, NoAction, "always_true"),
      EbsSettingsPolicy }

OtherPolicies == BasePolicies \cup DerivedFromDenied

\* policy == other
EqPolicy ==
    /\ pc = "policy_built"
    /\ \E other \in OtherPolicies :
          out' = [ out EXCEPT !.other = other, !.eq = PolicyEq(out.policy, other) ]
    /\ pc' = "policy_compared"
    /\ UNCHANGED <<cmd, heap, given, base_config, target_config, changes, stack, check_out,
                   args>>

NextPolicy == NewPolicy \/ CheckPolicy \/ EqPolicy

SpecPolicy == InitPolicy /\ [][NextPolicy]_vars

\* The condition_checker the constructor leaves on the policy: the one
\* given or, without one, the one of the base policy.
ConfiguredChecker ==
    IF Truthy(args.condition_checker) THEN args.condition_checker
    ELSE IF args.base_policy # {}
           THEN (CHOOSE b \in args.base_policy : TRUE).condition_checker
           ELSE NoChecker

\* C10: UpdatePolicy.check returns SUCCEEDED exactly when a
\* condition_checker is configured and evaluates true on the stack,
\* ACTION_NEEDED exactly when one is configured and evaluates false, FAILED
\* exactly when none is configured.
C10_CheckResult ==
    pc = "policy_checked"
        => LET configured == Truthy(ConfiguredChecker)
               evaluates  == configured /\ ~CheckerRaises(ConfiguredChecker, stack)
               value      == CheckerValue(ConfiguredChecker, stack)
           IN  /\ out.check = SUCCEEDED <=> (evaluates /\ value)
               /\ out.check = ACTION_NEEDED <=> (evaluates /\ ~value)
               /\ out.check = FAILED <=> ~configured

C10_Witness ==
    /\ pc = "policy_checked"
    /\ args.base_policy = {DENIED}
    /\ args.condition_checker = "asg_empty"
    /\ stack.asg_instances = 1
    /\ stack.reachable
    /\ out.check = ACTION_NEEDED

(***************************************************************************)
(* Claims on ConfigPatch.check.                                            *)
(***************************************************************************)
\* check was called and is over: it returned, or an exception left it.
CheckOver == pc \in {"checked", "check_raised"}

\* The changes check reports: those whose policy is not IGNORED.
Reported == SelectSeq(changes, LAMBDA c : ~PolicyEq(c.update_policy, IGNORED))

\* What the policy of a change answers on the stack of the call.
ResultOf(change) == PolicyCheck(change.update_policy, stack)

\* C11: check returns allowed = true exactly when every change whose policy
\* is not IGNORED has the result SUCCEEDED: one ACTION_NEEDED or FAILED
\* result makes it false wherever it stands, and no later SUCCEEDED makes it
\* true again.
C11_AllowedIffAllSucceeded ==
    CheckOver
        => ( (pc = "checked" /\ check_out.patch_allowed)
               <=> \A n \in 1..Len(Reported) : ResultOf(Reported[n]) = SUCCEEDED )

C11_Witness ==
    /\ pc = "checked"
    /\ Len(Reported) = 3
    /\ ResultOf(Reported[1]) = ACTION_NEEDED
    /\ ResultOf(Reported[2]) = SUCCEEDED
    /\ ResultOf(Reported[3]) = SUCCEEDED
    /\ ~check_out.patch_allowed

\* The positions in Reported of the changes whose policy has no
\* condition_checker.
Unchecked ==
    { n \in 1..Len(Reported) : ~Truthy(Reported[n].update_policy.condition_checker) }

\* C12: when a change of the patch has a policy without condition_checker,
\* check reports FAILED and the policy's fail_reason in the row of that
\* change, returns allowed = false, and has a row for every other change
\* whose policy is not IGNORED.
C12_NoCheckerFails ==
    (pc = "checked" /\ Unchecked # {})
        => /\ \A n \in Unchecked :
                 /\ check_out.rows[n + 1][5] = FAILED
                 /\ check_out.rows[n + 1][6] = Reported[n].update_policy.fail_reason
           /\ ~check_out.patch_allowed
           /\ Len(check_out.rows) = Len(Reported) + 1
           /\ \A n \in 1..Len(Reported) :
                 check_out.rows[n + 1][2] = Reported[n].param_key

C12_Witness ==
    /\ pc = "checked"
    /\ Len(Reported) = 3
    /\ Unchecked = {1}
    /\ Reported[1].update_policy = EbsSettingsPolicy
    /\ check_out.rows[2][6] = "Cannot add/remove EBS Sections"
    /\ check_out.rows[3][5] = ACTION_NEEDED
    /\ check_out.rows[4][5] = SUCCEEDED

\* C13: when the condition_checker of a change raises while check runs, the
\* exception does not leave check: the verdict is allowed = false and every
\* change whose policy is not IGNORED has its row.
C13_CheckerFailureContained ==
    CheckOver
        => /\ pc = "checked"
           /\ ~check_out.raised
           /\ Len(check_out.rows) = Len(Reported) + 1
           /\ (\E n \in 1..Len(Reported) : ResultOf(Reported[n]) = RAISED)
                  => ~check_out.patch_allowed

\* The text a remediation is expected to read.
Rendered(action_needed) ==
    IF action_needed = StopAction
      THEN "Stop the cluster with the following command: \npcluster stop -c "
           \o Patch.t.config_file \o " " \o Patch.b.config_file
      ELSE action_needed[1]

\* C14: the remediation set check returns holds, for every change whose
\* result is not SUCCEEDED, the action_needed text of its policy with the
\* two placeholders replaced, each text once, and nothing for the changes
\* that succeeded or are IGNORED.
C14_RemediationSet ==
    pc = "checked"
        => check_out.actions_needed =
               { Rendered(Reported[n].update_policy.action_needed) :
                   n \in { m \in 1..Len(Reported) :
                             /\ ResultOf(Reported[m]) # SUCCEEDED
                             /\ Reported[m].update_policy.action_needed # NoAction } }

C14_Witness ==
    /\ pc = "checked"
    /\ Len(Reported) = 3
    /\ \A n \in 1..3 : ResultOf(Reported[n]) # SUCCEEDED
    /\ Reported[1].update_policy = DENIED
    /\ Reported[2].update_policy = COMPUTE_FLEET_RESTART
    /\ Reported[3].update_policy = UNKNOWN
    /\ Cardinality(check_out.actions_needed) = 2
    /\ "Stop the cluster with the following command: \npcluster stop -c pcluster.config.dst.ini pcluster.config.ini"
           \in check_out.actions_needed

\* C15: after the header row check has exactly one row per change whose
\* policy is not IGNORED, in the order of the changes; an IGNORED change
\* has no row, adds no remediation and does not touch the verdict; the
\* reason is "-" exactly in the rows whose result is SUCCEEDED.
C15_RowsInOrder ==
    pc = "checked"
        => /\ check_out.rows[1] = HeaderRow
           /\ Len(check_out.rows) = Len(Reported) + 1
           /\ \A n \in 1..Len(Reported) :
                 LET row == check_out.rows[n + 1]
                     c   == Reported[n]
                 IN  /\ row[1] = c.section_key \o " " \o c.section_label
                     /\ row[2] = c.param_key
                     /\ row[3] = c.old_value
                     /\ row[4] = c.new_value
                     /\ row[5] = ResultOf(c)
                     /\ row[6] = "-" <=> row[5] = SUCCEEDED
           /\ check(Reported, stack, Patch) = check_out

C15_Witness ==
    /\ pc = "checked"
    /\ Len(changes) = 3
    /\ changes[2].update_policy = IGNORED
    /\ Len(check_out.rows) = 3
    /\ check_out.rows[2][5] = FAILED
    /\ check_out.rows[3][5] = SUCCEEDED
    /\ check_out.rows[3][6] = "-"

\* C16: check on a patch without changes returns allowed = true, the header
\* row alone and no remediation, whatever the stack, and calls no
\* condition_checker.
C16_NoChangesAllowed ==
    (CheckOver /\ changes = <<>>)
        => /\ pc = "checked"
           /\ check_out.patch_allowed
           /\ check_out.rows = <<HeaderRow>>
           /\ check_out.actions_needed = {}
           /\ check_out.evaluated = 0

C16_Witness ==
    /\ pc = "checked"
    /\ changes = <<>>
    /\ ~stack.reachable
    /\ check_out.patch_allowed

(***************************************************************************)
(* Claims on UpdatePolicy.                                                 *)
(***************************************************************************)
\* The constructor was given a base policy and nothing else.
NoOverrides ==
    /\ args.base_policy # {}
    /\ args.level = {}
    /\ args.fail_reason = None
    /\ args.action_needed = NoAction
    /\ args.condition_checker = None

BaseOf(a) == CHOOSE b \in a.base_policy : TRUE

\* C17: two policies are equal exactly when their fail_reason and their
\* level are the same, whatever their action_needed and condition_checker
\* and however they were built; UpdatePolicy(base) without overrides equals
\* base.
C17_EqualityByReasonAndLevel ==
    pc = "policy_compared"
        => /\ out.eq <=> ( /\ out.policy.fail_reason = out.other.fail_reason
                           /\ out.policy.level = out.other.level )
           /\ (NoOverrides /\ out.other = BaseOf(args)) => out.eq

C17_Witness ==
    /\ pc = "policy_compared"
    /\ out.eq
    /\ out.policy.action_needed # out.other.action_needed
    /\ out.policy.condition_checker # out.other.condition_checker
    /\ args.base_policy = {}

\* C18 as stated: two policies derived from DENIED with the same level and
\* different action_needed texts are not equal.
C18_Original ==
    ( /\ pc = "policy_compared"
      /\ args.base_policy = {DENIED}
      /\ out.other \in DerivedFromDenied
      /\ out.policy.level = out.other.level
      /\ out.policy.action_needed # out.other.action_needed )
        => ~out.eq

\* C18, amended: two policies derived from DENIED with the same level are
\* not equal when their fail_reason differs; a different action_needed text
\* alone leaves them equal.
C18_DerivedDiffer ==
    ( /\ pc = "policy_compared"
      /\ args.base_policy = {DENIED}
      /\ out.other \in DerivedFromDenied
      /\ out.policy.level = out.other.level )
        => /\ out.policy.fail_reason # out.other.fail_reason => ~out.eq
           /\ ( /\ out.policy.fail_reason = out.other.fail_reason
                /\ out.policy.action_needed # out.other.action_needed ) => out.eq

C18_Witness ==
    /\ pc = "policy_compared"
    /\ args.base_policy = {DENIED}
    /\ args.fail_reason = "Cannot add/remove EBS Sections"
    /\ args.action_needed # NoAction
    /\ out.other = UpdatePolicy({DENIED}, {}, None, NoAction, None)
    /\ out.policy.level = out.other.level
    /\ ~out.eq

\* C19: UpdatePolicy(base_policy, overrides) has, for every subset of
\* level, fail_reason, action_needed and condition_checker and every value
\* given (level 0 and negative levels, every text), the values given in the
\* overridden fields and the base policy's in the others.
C19_OverridesApplied ==
    (pc = "policy_built" /\ args.base_policy # {})
        => /\ out.policy.level =
                 IF args.level # {} THEN (CHOOSE l \in args.level : TRUE)
                 ELSE BaseOf(args).level
           /\ out.policy.fail_reason =
                 IF args.fail_reason # None THEN args.fail_reason
                 ELSE BaseOf(args).fail_reason
           /\ out.policy.action_needed =
                 IF args.action_needed # NoAction THEN args.action_needed
                 ELSE BaseOf(args).action_needed
           /\ out.policy.condition_checker =
                 IF args.condition_checker # None THEN args.condition_checker
                 ELSE BaseOf(args).condition_checker

\* C20: the levels of the base policies ascend, IGNORED -10, ALLOWED 0,
\* COMPUTE_FLEET_RESTART 10, MASTER_RESTART 20, UNKNOWN 100, DENIED 1000;
\* IGNORED and ALLOWED check SUCCEEDED and UNKNOWN and DENIED check FAILED
\* on every stack; COMPUTE_FLEET_RESTART checks SUCCEEDED exactly when the
\* compute fleet has no instance, MASTER_RESTART exactly when the master
\* server is stopped, and ACTION_NEEDED otherwise.
C20_BasePolicies ==
    /\ <<IGNORED.level, ALLOWED.level, COMPUTE_FLEET_RESTART.level, MASTER_RESTART.level,
         UNKNOWN.level, DENIED.level>> = <<-10, 0, 10, 20, 100, 1000>>
    /\ (pc = "policy_checked" /\ NoOverrides)
          => LET b == BaseOf(args)
             IN  /\ b \in {IGNORED, ALLOWED} => out.check = SUCCEEDED
                 /\ b \in {UNKNOWN, DENIED} => out.check = FAILED
                 /\ (b = COMPUTE_FLEET_RESTART /\ stack.reachable)
                       => out.check = IF stack.asg_instances = 0 THEN SUCCEEDED
                                      ELSE ACTION_NEEDED
                 /\ (b = MASTER_RESTART /\ stack.reachable)
                       => out.check = IF stack.master_state = "stopped" THEN SUCCEEDED
                                      ELSE ACTION_NEEDED

C20_Witness ==
    /\ pc = "policy_checked"
    /\ NoOverrides
    /\ BaseOf(args) = COMPUTE_FLEET_RESTART
    /\ stack.reachable
    /\ stack.asg_instances = 1
    /\ stack.master_state = "stopped"
    /\ out.check = ACTION_NEEDED

(***************************************************************************)
(* Claims on the placeholders of adaptation.                               *)
(***************************************************************************)
\* The sections _create_default_section has put into `config`: every
\* parameter at its default.  A section loaded from a file carries a value
\* for at least one parameter, and no "cluster" section is ever missing.
Synthesized(config) ==
    { s \in SeqToSet(config.sections) :
        /\ s.key # "cluster"
        /\ s.params = NewSection(s.key, s.label).params }

Adapted == pc \in {"compare", "remove_mock"}
Cleaned == pc \in {"compare_cluster", "built"}

\* C21, as stated: every section synthesized by adaptation, of a kind with or
\* without key_param, is marked mock, and none is left in the base copy or
\* in the target copy once the mock sections have been removed.
C21_Original ==
    /\ Adapted => \A s \in Synthesized(Patch.b) \cup Synthesized(Patch.t) : s.mock
    /\ Cleaned => Synthesized(Patch.b) \cup Synthesized(Patch.t) = {}

\* C21, amended: a synthesized section is marked mock exactly if its kind
\* declares a key_param; the marked ones have been removed from both copies
\* before the "cluster" section is compared and are absent after
\* construction, the unmarked ones (kinds without key_param) stay.
C21_KeyedPlaceholdersRemoved ==
    /\ Adapted =>
          \A s \in Synthesized(Patch.b) \cup Synthesized(Patch.t) :
              s.mock <=> Truthy(key_param(s.key))
    /\ Cleaned =>
          /\ \A s \in SeqToSet(Patch.b.sections) \cup SeqToSet(Patch.t.sections) : ~s.mock
          /\ \A s \in Synthesized(Patch.b) \cup Synthesized(Patch.t) :
                 ~Truthy(key_param(s.key))
          /\ { s \in Synthesized(_adapt(given).b) : ~s.mock } = Synthesized(Patch.b)
          /\ { s \in Synthesized(_adapt(given).t) : ~s.mock } = Synthesized(Patch.t)

\* A patch built after a keyed placeholder was synthesized in each copy and
\* a placeholder of a kind without key_param in the target copy.
C21_Witness ==
    /\ pc = "built"
    /\ \E s \in Synthesized(_adapt(given).b) : s.mock
    /\ \E s \in Synthesized(_adapt(given).t) : s.mock
    /\ Synthesized(Patch.b) = {}

\* A patch built with a placeholder of a kind without key_param left in it.
C21_WitnessUnmarked ==
    /\ pc = "built"
    /\ \E s \in Synthesized(Patch.t) : s.key = "vpc" /\ ~s.mock

(***************************************************************************)
(* Claims on the comparison.                                               *)
(***************************************************************************)
\* The labels of the sections of `section_key` in `config` that are not
\* mock, in the order of the sections.
LabelsIn(config, section_key) ==
    LET held == SelectSeq(config.sections,
                          LAMBDA s : s.key = section_key /\ ~s.mock)
    IN  [ n \in 1..Len(held) |-> held[n].label ]

\* The settings parameters of the "cluster" sections of `config` list the
\* sorted labels of the sections they refer to.
SettingsListLabels(config) ==
    \A s \in SeqToSet(config.sections) :
        s.key = "cluster" =>
            \A p \in DOMAIN s.params :
                IsSettings(p) =>
                    s.params[p] = join(sorted(LabelsIn(config, referred_section_key(p))))

\* The labels of the mock sections of `section_key` adaptation had put into
\* `config`, removed since.
RemovedMockLabels(config, section_key) ==
    { s.label : s \in { u \in SeqToSet(config.sections) : u.key = section_key /\ u.mock } }

\* The Changes on settings parameters of the "cluster" section.
SettingsChanges ==
    { i \in 1..Len(changes) :
        changes[i].section_key = "cluster" /\ IsSettings(changes[i].param_key) }

\* Every such Change holds the lists of the two copies.
SettingsChangesListLabels ==
    \A i \in SettingsChanges :
        /\ changes[i].old_value
             = join(sorted(LabelsIn(Patch.b, referred_section_key(changes[i].param_key))))
        /\ changes[i].new_value
             = join(sorted(LabelsIn(Patch.t, referred_section_key(changes[i].param_key))))

\* C22, as stated: when the "cluster" section is compared its settings
\* parameters, in both copies, are the comma-join of the sorted labels of the
\* non-mock sections then held; and the label of a mock section removed from
\* either copy is listed neither in the old nor in the new value of a Change
\* on a settings parameter.
C22_Original ==
    /\ pc = "compare_cluster" => SettingsListLabels(Patch.b) /\ SettingsListLabels(Patch.t)
    /\ pc = "built" =>
          /\ SettingsChangesListLabels
          /\ \A i \in SettingsChanges :
                LET k == referred_section_key(changes[i].param_key)
                    removed == RemovedMockLabels(_adapt(given).b, k)
                               \cup RemovedMockLabels(_adapt(given).t, k)
                IN  /\ removed \cap SeqToSet(LabelsIn(Patch.b, k)) = {}
                    /\ removed \cap SeqToSet(LabelsIn(Patch.t, k)) = {}

\* C22, amended: the same of the settings parameters; and the label of a
\* mock section removed from the base copy is not listed in the old value,
\* that of one removed from the target copy not in the new value.
C22_SettingsExcludeMocks ==
    /\ pc = "compare_cluster" => SettingsListLabels(Patch.b) /\ SettingsListLabels(Patch.t)
    /\ pc = "built" =>
          /\ SettingsChangesListLabels
          /\ \A i \in SettingsChanges :
                LET k == referred_section_key(changes[i].param_key)
                IN  /\ RemovedMockLabels(_adapt(given).b, k)
                         \cap SeqToSet(LabelsIn(Patch.b, k)) = {}
                    /\ RemovedMockLabels(_adapt(given).t, k)
                         \cap SeqToSet(LabelsIn(Patch.t, k)) = {}

\* A patch with a Change on a settings parameter, built after a mock section
\* was removed from each copy, the base copy holding two sections whose
\* labels are not in sorted order.
C22_Witness ==
    /\ pc = "built"
    /\ SettingsChanges # {}
    /\ RemovedMockLabels(_adapt(given).b, "ebs") # {}
    /\ RemovedMockLabels(_adapt(given).t, "ebs") # {}

\* The unmatched base sections keep their synthetic labels, the first
\* section holding the greater one.
C22_WitnessUnsorted ==
    /\ pc = "compare_cluster"
    /\ Len(LabelsIn(Patch.b, "ebs")) = 2
    /\ LabelsIn(Patch.b, "ebs") # sorted(LabelsIn(Patch.b, "ebs"))

\* The positions in patch.changes of the Changes of the "cluster" section.
ClusterChanges == { i \in 1..Len(changes) : changes[i].section_key = "cluster" }

\* C23: no "cluster" section is compared before the mock sections have been
\* removed: until then patch.changes holds no Change of "cluster", the
\* removal leaves patch.changes as it is, and only the last step appends
\* Changes of "cluster"; in the built patch every Change of "cluster" comes
\* after every Change of another section key, and no parameter of "cluster"
\* has two Changes (the section is compared once).
C23_ClusterComparedLast ==
    /\ pc \in {"start", "remove_ignored", "rename", "match_base", "match_target", "compare"}
          => changes = <<>>
    /\ pc \in {"remove_mock", "compare_cluster"} => ClusterChanges = {}
    /\ pc = "compare_cluster" =>
          /\ changes = CompareSections(_adapt(given), VisitOrder(_adapt(given).t))
          /\ \A s \in SeqToSet(Patch.b.sections) \cup SeqToSet(Patch.t.sections) : ~s.mock
    /\ pc = "built" =>
          /\ \A i \in ClusterChanges : \A j \in 1..Len(changes) :
                j \notin ClusterChanges => j < i
          /\ \A i, j \in ClusterChanges :
                changes[i].param_key = changes[j].param_key => i = j
          /\ \A i \in ClusterChanges : changes[i].section_label = ClusterLabel(Patch.t)

\* A built patch with Changes of "cluster" and of two other section keys.
C23_Witness ==
    /\ pc = "built"
    /\ Cardinality(ClusterChanges) = 2
    /\ \E i \in 1..Len(changes) : changes[i].section_key = "ebs"
    /\ Len(changes) > 3

(***************************************************************************)
(* Claims on the matching of adaptation.                                   *)
(***************************************************************************)
\* No two sections of `config` have the same key and label.
UniqueLabels(config) ==
    \A i, j \in 1..Len(config.sections) :
        /\ config.sections[i].key = config.sections[j].key
        /\ config.sections[i].label = config.sections[j].label
        => i = j

\* C24: in every state of the construction of a patch, from the copies on,
\* neither the base copy nor the target copy holds two sections of the same
\* key and label.
C24_LabelsUnique ==
    pc \in {"remove_ignored", "rename", "match_base", "match_target", "compare",
            "remove_mock", "compare_cluster", "built"}
        => UniqueLabels(Patch.b) /\ UniqueLabels(Patch.t)

\* The sections of `section_key` in `config`, in their order.
SectionsOf(config, section_key) ==
    SelectSeq(config.sections, LAMBDA s : s.key = section_key)

\* `empty` was given no section of `section_key` and `full` at least one;
\* adaptation has put into `empty_copy` one placeholder for each section
\* of `full_copy`, under that section's label, and nothing else.
OnePlaceholderEach(empty, full, empty_copy, full_copy, section_key) ==
    LET n == Len(SectionsOf(full, section_key))
        placeholders == SectionsOf(empty_copy, section_key)
    IN  (SectionsOf(empty, section_key) = <<>> /\ n >= 1) =>
            /\ Len(placeholders) = n
            /\ SeqToSet(placeholders) \subseteq Synthesized(empty_copy)
            /\ Cardinality({ s.label : s \in SeqToSet(placeholders) }) = n
            /\ { s.label : s \in SeqToSet(placeholders) }
                 = { s.label : s \in SeqToSet(SectionsOf(full_copy, section_key)) }
            /\ Len(SectionsOf(full_copy, section_key)) = n

\* C25: when one configuration has no section of a key and the other has
\* N >= 1, the adapted copy of the former holds exactly N placeholders of the
\* key, one for each section of the other under a label of its own, for the
\* kind without key_param ("vpc") and for the kind with one ("ebs").
C25_PlaceholderPerSection ==
    pc = "compare" =>
        \A section_key \in {"vpc", "ebs"} :
            /\ OnePlaceholderEach(given.t, given.b, Patch.t, Patch.b, section_key)
            /\ OnePlaceholderEach(given.b, given.t, Patch.b, Patch.t, section_key)

\* The sections of the target, as given, a base section of the constructor's
\* argument is to be paired with: those of its key with its key_param value,
\* or the section of its key if it is the only one.
Partners(section) ==
    LET same_key == SectionsOf(_remove_ignored_sections(given.t), section.key)
    IN  IF Truthy(key_param(section.key))
          THEN { t \in SeqToSet(same_key) :
                   get_param_value(t, key_param(section.key))
                     = get_param_value(section, key_param(section.key)) }
          ELSE IF Len(same_key) = 1 THEN { same_key[1] } ELSE {}

\* The positions of the base sections that have no partner.
Unpaired ==
    LET kept == _remove_ignored_sections(given.b)
    IN  { i \in 1..Len(kept.sections) : Partners(kept.sections[i]) = {} }

\* C26: after the first loop of adaptation every base section carries the
\* label of its partner: a target section of its key with its key_param
\* value, or, for a kind without key_param, the section of its key if the
\* target holds exactly one; a section without partner has a placeholder of
\* its own in the target copy, under the synthetic label the renaming gave
\* it.  The labels the two configurations were given play no part.
C26_MatchingRule ==
    pc = "match_target" =>
        LET kept    == _remove_ignored_sections(given.b)
            renamed == _rename_base_sections(kept)
        IN  /\ Len(Patch.b.sections) = Len(kept.sections)
            /\ \A i \in 1..Len(kept.sections) :
                  /\ \A q \in DOMAIN kept.sections[i].params :
                        ~IsSettings(q) =>
                            Patch.b.sections[i].params[q] = kept.sections[i].params[q]
                  /\ i \notin Unpaired =>
                        Patch.b.sections[i].label
                          \in { t.label : t \in Partners(kept.sections[i]) }
                  /\ i \in Unpaired =>
                        /\ Patch.b.sections[i].label = renamed.sections[i].label
                        /\ \E t \in Synthesized(Patch.t) :
                              /\ t.key = kept.sections[i].key
                              /\ t.label = renamed.sections[i].label
            /\ Cardinality(Unpaired)
                 = Len(SelectSeq(Patch.t.sections, LAMBDA t : t \in Synthesized(Patch.t)))

\* A base section with the label of a target section of its key but another
\* key_param value is given a placeholder, and a base section with the
\* key_param value of a target section of another label is paired with it.
C26_Witness ==
    /\ pc = "match_target"
    /\ LET kept == _remove_ignored_sections(given.b)
       IN  /\ \E i \in Unpaired :
                  \E t \in SeqToSet(given.t.sections) :
                      t.key = kept.sections[i].key /\ t.label = kept.sections[i].label
           /\ \E i \in 1..Len(kept.sections) :
                  /\ kept.sections[i].key = "ebs"
                  /\ i \notin Unpaired
                  /\ Patch.b.sections[i].label # kept.sections[i].label

\* The sections of the target copy a Change can name: those compared in
\* the loop over the target sections, mock sections included, and the
\* "cluster" section compared last.
ComparedTargetSections ==
    SeqToSet(_adapt(given).t.sections) \cup SeqToSet(Patch.t.sections)

\* The base sections compared with them.
ComparedBaseSections ==
    SeqToSet(_adapt(given).b.sections) \cup SeqToSet(Patch.b.sections)

\* `section` with one more parameter, which no section definition declares.
WithBaseOnlyParam(section) ==
    [ key |-> section.key, label |-> section.label, mock |-> section.mock,
      params |-> [ q \in DOMAIN section.params \cup {"base_only"} |->
                     IF q = "base_only" THEN "value" ELSE section.params[q] ] ]

\* C27: every Change of a built patch has an old value different from the
\* new one, names a parameter of a section of the target copy (key, label,
\* parameter) and carries the update policy of that parameter; its old value
\* is that of the base section of the same key and label.  A section
\* compared with no base section gives Changes with old value None only, and
\* a parameter only the base section has gives no Change.
C27_ChangesWellFormed ==
    pc = "built" =>
        /\ \A i \in 1..Len(changes) :
              LET c == changes[i]
              IN  /\ c.old_value # c.new_value
                  /\ \E t \in ComparedTargetSections :
                        /\ t.key = c.section_key
                        /\ t.label = c.section_label
                        /\ c.param_key \in DOMAIN t.params
                        /\ c.new_value = t.params[c.param_key]
                  /\ c.update_policy = get_update_policy(c.section_key, c.param_key)
                  /\ \E b \in ComparedBaseSections :
                        /\ b.key = c.section_key
                        /\ b.label = c.section_label
                        /\ c.old_value = get_param_value(b, c.param_key)
        /\ \A t \in ComparedTargetSections :
              /\ \A n \in 1..Len(_compare_section(<<>>, t)) :
                    /\ _compare_section(<<>>, t)[n].old_value = None
                    /\ _compare_section(<<>>, t)[n].new_value # None
              /\ _compare_section(<< WithBaseOnlyParam(t) >>, t) = <<>>

\* A built patch with a Change of a target section removed since as mock,
\* a Change of a section whose base section was a placeholder (old value
\* None) and a Change of the "cluster" section.
C27_Witness ==
    /\ pc = "built"
    /\ \E i \in 1..Len(changes) :
          /\ changes[i].section_key = "ebs"
          /\ changes[i].new_value = None
          /\ \A t \in SeqToSet(Patch.t.sections) : t.label # changes[i].section_label
    /\ \E i \in 1..Len(changes) :
          changes[i].section_key = "ebs" /\ changes[i].old_value = None
    /\ ClusterChanges # {}

\* The "ebs" sections of `config`, by label.
EbsOf(config) == OfKey(config, "ebs")

\* base and target are the same configuration with two keyed ("ebs")
\* sections, but for the key_param value of one of them.
OneKeyParamChanged(base, target) ==
    /\ Cardinality(EbsOf(base)) = 2
    /\ NonCluster(base) \ EbsOf(base) = NonCluster(target) \ EbsOf(target)
    /\ { s.label : s \in EbsOf(base) } = { s.label : s \in EbsOf(target) }
    /\ Cardinality(EbsOf(base) \cap EbsOf(target)) = 1
    /\ \A s \in OfKey(base, "cluster") : \A t \in OfKey(target, "cluster") :
          s.params.initial_queue_size = t.params.initial_queue_size

\* C28: from identical configurations with two keyed sections, changing the
\* key_param value of one of them in the target gives exactly three changes:
\* the settings parameter of "cluster" from (synthetic label of the
\* unmatched base section, other label) to the two target labels, the key
\* parameter of the unmatched base section from its value to None, and the
\* key parameter of the unmatched target section from None to its value;
\* the update_policy_level is DENIED's.
C28_KeyParamChanged ==
    (pc = "built" /\ OneKeyParamChanged(given.b, given.t))
        => LET old   == CHOOSE s \in EbsOf(given.b) \ EbsOf(given.t) : TRUE
               new   == CHOOSE s \in EbsOf(given.t) \ EbsOf(given.b) : TRUE
               other == CHOOSE s \in EbsOf(given.b) \cap EbsOf(given.t) : TRUE
           IN  /\ Len(changes) = 3
               /\ \E i \in 0..MaxEbs :
                     { Values(changes[n]) : n \in 1..Len(changes) } =
                         { << "cluster", ClusterLabel(given.t), "ebs_settings",
                              join(sorted(<<new_lbl("ebs", i), other.label>>)),
                              join(sorted(<<new.label, other.label>>)) >>,
                           << "ebs", new_lbl("ebs", i), "shared_dir",
                              old.params.shared_dir, None >>,
                           << "ebs", new.label, "shared_dir",
                              None, new.params.shared_dir >> }
               /\ update_policy_level(changes) = DENIED.level

\* The patch of the test: "vol1" of ebs-1 changed to "new_value".
C28_Witness ==
    /\ pc = "built"
    /\ OneKeyParamChanged(given.b, given.t)
    /\ Len(changes) = 3
    /\ \E n \in 1..3 :
          Values(changes[n]) = <<"cluster", "default", "ebs_settings", "_ebs,ebs-2", "ebs-1,ebs-2">>
    /\ \E n \in 1..3 : Values(changes[n]) = <<"ebs", "_ebs", "shared_dir", "vol1", None>>
    /\ \E n \in 1..3 : Values(changes[n]) = <<"ebs", "ebs-1", "shared_dir", None, "new_value">>

(***************************************************************************)
(* The update command: execute(args) of update_command.py, from the call   *)
(* of _check_updatability on.                                              *)
(***************************************************************************)
\* What the user types at "Do you want to proceed with the update? - Y/N: ".
Answers == {"y", "Y", " y ", "n", "N", "yes", ""}

\* answer.strip().lower()
StripLower(answer) ==
    CASE answer \in {"y", "Y", " y "} -> "y"
      [] answer \in {"n", "N"}        -> "n"
      [] OTHER                        -> answer

\* Mutation of Consented: everything but a "no" is taken for consent.
ConsentedUnlessNo(answer) == StripLower(answer) # "n"

\* input(...).strip().lower() == "y"
Consented(answer) == StripLower(answer) = "y"

\* What can fail before the check: nothing, the load of the base
\* configuration (outside the try), or the construction of the patch
\* (inside it).
Failures == {None, "load", "construct"}

\* The changes of the patch the command builds.
UpdateChangeLists == { chs \in ChangeLists : Len(chs) <= MaxUpdateChanges }

InitUpdate ==
    /\ given = [ b |-> FileConfig, t |-> TargetFileConfig ]
    /\ heap = [ r \in DOMAIN Heap(FileConfig, TargetFileConfig) |->
                   IF r \in {"src_conf", deepcopy("src_conf")} THEN FileConfig
                   ELSE TargetFileConfig ]
    /\ base_config = deepcopy("src_conf")
    /\ target_config = deepcopy("dst_conf")
    /\ changes \in UpdateChangeLists
    /\ pc = "update"
    /\ stack = NoStack
    /\ check_out = NoCheck
    /\ args = NoArgs
    /\ out = NoOut
    /\ \E force \in BOOLEAN, raises \in Failures :
          cmd = [ NoCmd EXCEPT !.step = "check_updatability", !.force = force,
                               !.raises = raises ]

\* _check_updatability with --force: a warning, no patch, no check.
CheckForced ==
    /\ cmd.step = "check_updatability"
    /\ cmd.force
    /\ cmd' = [ cmd EXCEPT !.step = "consent" ]
    /\ UNCHANGED <<heap, given, base_config, target_config, changes, pc, stack,
                   check_out, args, out>>

\* The base configuration cannot be loaded: the exception leaves execute.
LoadFails ==
    /\ cmd.step = "check_updatability"
    /\ ~cmd.force
    /\ cmd.raises = "load"
    /\ cmd' = [ cmd EXCEPT !.step = "done", !.exit_status = "1" ]
    /\ UNCHANGED <<heap, given, base_config, target_config, changes, pc, stack,
                   check_out, args, out>>

\* The try block of _check_updatability: the patch is built and, if it has
\* changes, checked; "except Exception" catches what either raises.
CheckPatch ==
    /\ cmd.step = "check_updatability"
    /\ ~cmd.force
    /\ cmd.raises # "load"
    /\ IF cmd.raises = "construct"
         THEN /\ cmd' = [ cmd EXCEPT !.step = "consent", !.can_proceed = FALSE ]
              /\ UNCHANGED <<stack, check_out>>
         ELSE IF Len(changes) # 0
           THEN \E st \in Stacks :
                   /\ stack' = st
                   /\ check_out' = check(changes, st, Patch)
                   /\ cmd' = [ cmd EXCEPT
                                 !.step = "consent", !.patch_built = TRUE,
                                 !.checked = TRUE,
                                 !.can_proceed =
                                     /\ ~check(changes, st, Patch).raised
                                     /\ check(changes, st, Patch).patch_allowed ]
           ELSE /\ cmd' = [ cmd EXCEPT !.step = "consent", !.patch_built = TRUE ]
                /\ UNCHANGED <<stack, check_out>>
    /\ UNCHANGED <<heap, given, base_config, target_config, changes, pc, args, out>>

\* "Final consent from user": asked only if can_proceed.
Consent ==
    /\ cmd.step = "consent"
    /\ IF cmd.can_proceed
         THEN \E answer \in Answers :
                 cmd' = [ cmd EXCEPT !.step = "returned", !.prompted = TRUE,
                                     !.answer = answer,
                                     !.can_proceed = Consented(answer) ]
         ELSE cmd' = [ cmd EXCEPT !.step = "returned" ]
    /\ UNCHANGED <<heap, given, base_config, target_config, changes, pc, stack,
                   check_out, args, out>>

\* _update_cluster: update_stack is called; a ClientError ends the process
\* with status 1, a KeyboardInterrupt or the end of the update with 0.
UpdateCluster ==
    /\ cmd.step = "returned"
    /\ cmd.can_proceed
    /\ \E status \in {"0", "1"} :
          cmd' = [ cmd EXCEPT !.step = "done", !.update_stack = TRUE,
                              !.exit_status = status ]
    /\ UNCHANGED <<heap, given, base_config, target_config, changes, pc, stack,
                   check_out, args, out>>

\* "Update aborted." and sys.exit(1)
Abort ==
    /\ cmd.step = "returned"
    /\ ~cmd.can_proceed
    /\ cmd' = [ cmd EXCEPT !.step = "done", !.exit_status = "1" ]
    /\ UNCHANGED <<heap, given, base_config, target_config, changes, pc, stack,
                   check_out, args, out>>

NextUpdate == CheckForced \/ LoadFails \/ CheckPatch \/ Consent \/ UpdateCluster \/ Abort

SpecUpdate == InitUpdate /\ [][NextUpdate]_vars

\* The check of the patch returned, and did not allow it.
Disallowed == cmd.checked /\ ~check_out.raised /\ ~check_out.patch_allowed

\* C29: update_stack is called only after the user has been asked and has
\* answered "y"; without force, only if besides the patch was built without
\* an exception and has no changes or was allowed by check.  When the
\* construction raises or the check disallows the patch, the user is not
\* asked, update_stack is not called and the process ends with status 1.
\* With force no patch is built and no check is run, and the user is asked
\* all the same.
C29_UpdateOnlyWithConsent ==
    /\ cmd.update_stack => cmd.prompted /\ StripLower(cmd.answer) = "y"
    /\ (cmd.update_stack /\ ~cmd.force) =>
          /\ cmd.raises = None
          /\ cmd.patch_built
          /\ \/ Len(changes) = 0 /\ ~cmd.checked
             \/ cmd.checked /\ ~check_out.raised /\ check_out.patch_allowed
    /\ (~cmd.force /\ (cmd.raises = "construct" \/ Disallowed)) =>
          /\ ~cmd.prompted
          /\ ~cmd.update_stack
          /\ cmd.step = "done" => cmd.exit_status = "1"
    /\ cmd.force =>
          /\ ~cmd.patch_built
          /\ ~cmd.checked
          /\ check_out = NoCheck
          /\ cmd.step \in {"returned", "done"} => cmd.prompted

\* update_stack called after an allowed check of two changes and the answer
\* " y ".
C29_Witness ==
    /\ cmd.step = "done"
    /\ cmd.update_stack
    /\ ~cmd.force
    /\ cmd.checked
    /\ Len(changes) = 2
    /\ check_out.patch_allowed
    /\ cmd.answer = " y "

\* The command ended with status 1, unasked, after the check disallowed the
\* patch.
C29_WitnessAborted ==
    /\ cmd.step = "done"
    /\ Disallowed
    /\ cmd.exit_status = "1"
    /\ ~cmd.prompted

====
